---- MODULE Spec2Model ----
(***************************************************************************)
(* Model of src/lib.rs of steel-postgres: the PostgresClient wrapper that  *)
(* binds Steel FFI values as statement parameters (execute), decodes       *)
(* result rows into FFI values (query) and passes scripts through          *)
(* (batch_execute), with the PostgresError type unifying the failures.     *)
(*                                                                         *)
(* Values are records of one shape so that any two can be compared:        *)
(*   FFI value      [tag, n, items]   (items is used by Vector only)       *)
(*   bind parameter [sql, n]          (the &ToSqlSync handed to the driver)*)
(*   column cell    [null, n]                                              *)
(* Payloads are integers: a boolean is 0/1, a string, a byte vector and a  *)
(* float are the index of a sample value (they are only ever copied).      *)
(* Integer widths are scaled down (TLC integers are 32 bit) but keep       *)
(* their order: Bits16 < Bits32 < Bits64.                                  *)
(***************************************************************************)
EXTENDS Integers, Sequences, FiniteSets, TLC

\* ------------------------------------------------------------- bounds
Bits16 == 4
Bits32 == 6
Bits64 == 8
MaxParams == 2
MaxCols == 2
MaxRows == 2
MaxTableRows == 2

Callers == {1, 2}
HostThread == {1}

VARIABLES
    intBits,      \* width of the payload of FFIArg::IntV / FFIValue::IntV
    db,           \* the server: table t(a ty), [ty, rows]
    borrow,       \* holder of the &mut PostgresClient, 0 when nobody
    pc,           \* per caller: idle, execute, query_wait, query, batch,
                  \* returned, panic
    op,           \* per caller: the method it called last
    stmt,         \* per caller: the query text of the call
    bindings,     \* per caller: the FFIArg passed to execute
    references,   \* per caller: the Vec<&ToSqlSync> built by execute
    sent,         \* per caller: the parameter slice the driver was given
    ncalls,       \* per caller: driver primitives invoked by the call
    cols,         \* per caller: column types of the rows query fetched
    rows,         \* per caller: the Vec<Row> query fetched
    results,      \* per caller: the RVec of decoded rows
    computed_row, \* per caller: the row being decoded when query stopped
    answer,       \* per caller: what the driver answered, [err, count]
    ret           \* per caller: the value the call returned

vars == <<intBits, db, borrow, pc, op, stmt, bindings, references, sent, ncalls,
          cols, rows, results, computed_row, answer, ret>>

\* ------------------------------------------------------ integer casts
Pow2(k) == 2 ^ k
MinInt(bits) == 0 - Pow2(bits - 1)
MaxInt(bits) == Pow2(bits - 1) - 1
InRange(bits, x) == MinInt(bits) <= x /\ x <= MaxInt(bits)

\* Mutation of CastTo: the bits are read as unsigned (zero extension).
CastZeroExtend(bits, x) == x % Pow2(bits)

\* Rust `x as iN`: two's complement wrap of x into N bits (sign extension
\* when x already fits).
CastTo(bits, x) == ((x + Pow2(bits - 1)) % Pow2(bits)) - Pow2(bits - 1)

\* ---------------------------------------------------------- FFI values
BoolV(b) == [tag |-> "BoolV", n |-> b, items |-> <<>>]
NumV(f) == [tag |-> "NumV", n |-> f, items |-> <<>>]
IntV(i) == [tag |-> "IntV", n |-> i, items |-> <<>>]
StringRef(s) == [tag |-> "StringRef", n |-> s, items |-> <<>>]
StringV(s) == [tag |-> "StringV", n |-> s, items |-> <<>>]
ByteVector(b) == [tag |-> "ByteVector", n |-> b, items |-> <<>>]
Void == [tag |-> "Void", n |-> 0, items |-> <<>>]
Vector(xs) == [tag |-> "Vector", n |-> 0, items |-> xs]

\* ------------------------------------------------------- PostgresError
NoReturn == [kind |-> "None", err |-> "", val |-> Void]
Ok(v) == [kind |-> "Ok", err |-> "", val |-> v]
Error(e) == [kind |-> "Error", err |-> e, val |-> Void]
TypeMismatch == [kind |-> "TypeMismatch", err |-> "", val |-> Void]

\* Mutation of FromDriverError: the driver error is replaced by the
\* adapter's own error case.
FromDriverErrorLost(e) == TypeMismatch

\* `?` on a driver result: From<postgres::Error> wraps the error.
FromDriverError(e) == Error(e)

\* --------------------------------------------------- parameter encoder
\* The arms of the first match of execute; every other variant reaches
\* the `a => todo!(...)` arm.
SupportedArgTags == {"BoolV", "NumV", "IntV", "StringRef", "StringV", "Void"}

\* FFIArg -> Argument. Argument::Int holds an i32, so the IntV payload is
\* cast to 32 bits; strings are copied with to_string().
ToArgument(a) ==
    CASE a.tag = "BoolV" -> [arg |-> "Bool", n |-> a.n]
      [] a.tag = "NumV" -> [arg |-> "Number", n |-> a.n]
      [] a.tag = "IntV" -> [arg |-> "Int", n |-> CastTo(Bits32, a.n)]
      [] a.tag = "StringRef" -> [arg |-> "String", n |-> a.n]
      [] a.tag = "StringV" -> [arg |-> "String", n |-> a.n]
      [] a.tag = "Void" -> [arg |-> "Void", n |-> 0]

\* Argument -> &ToSqlSync: a reference to the bool, f64, i32 or String
\* inside the Argument, or to the unit DynamicToSqlNoneType.
ToSqlRef(g) ==
    CASE g.arg = "Bool" -> [sql |-> "bool", n |-> g.n]
      [] g.arg = "Number" -> [sql |-> "f64", n |-> g.n]
      [] g.arg = "Int" -> [sql |-> "i32", n |-> g.n]
      [] g.arg = "String" -> [sql |-> "String", n |-> g.n]
      [] g.arg = "Void" -> [sql |-> "DynamicToSqlNoneType", n |-> 0]

\* Mutation of Converted: the elements are collected back to front.
ConvertedReversed(xs) == [k \in 1..Len(xs) |-> ToArgument(xs[Len(xs) + 1 - k])]

\* bindings.iter().map(..).collect(): one Argument per element, in order.
Converted(xs) == [k \in 1..Len(xs) |-> ToArgument(xs[k])]

\* converted.iter().map(..).collect(): one reference per Argument, in order.
References(cs) == [k \in 1..Len(cs) |-> ToSqlRef(cs[k])]

HasUnsupportedArg(xs) == \E k \in 1..Len(xs) : xs[k].tag \notin SupportedArgTags

\* ------------------------------------------------------ bind-time check
TypeTags == {"BOOL", "TEXT", "BYTEA", "INT2", "INT4", "INT8", "FLOAT8"}

\* ToSql::accepts: DynamicToSqlNoneType answers true for every type; bool,
\* f64, i32 and String accept the one type of TypeTags the driver maps
\* them to.
Accepts(sql, ty) ==
    CASE sql = "DynamicToSqlNoneType" -> TRUE
      [] sql = "bool" -> ty = "BOOL"
      [] sql = "f64" -> ty = "FLOAT8"
      [] sql = "i32" -> ty = "INT4"
      [] sql = "String" -> ty = "TEXT"

NullCell == [null |-> TRUE, n |-> 0]
Cell(v) == [null |-> FALSE, n |-> v]

\* ToSql::to_sql_checked as the driver calls it for one parameter:
\* DynamicToSqlNoneType returns IsNull::Yes without looking at the type
\* and writes nothing; the others fail with WrongType unless they accept
\* the type, else write their value.
ToSqlChecked(r, ty) ==
    IF r.sql = "DynamicToSqlNoneType"
    THEN [err |-> "", cell |-> NullCell]
    ELSE IF Accepts(r.sql, ty)
         THEN [err |-> "", cell |-> Cell(r.n)]
         ELSE [err |-> "WrongType", cell |-> NullCell]

\* --------------------------------------------------------- row decoder
\* The type tags the match of query has an arm for.
SupportedTypes == {"BOOL", "TEXT", "BYTEA", "INT2", "INT4", "INT8"}

\* One arm of the match: row.get::<_, Option<T>>(i), mapped into the FFI
\* variant, or Void for None. The integer arms cast with `x as _` to the
\* payload of IntV.
DecodeColumn(typ, cell) ==
    IF cell.null THEN Void
    ELSE CASE typ = "BOOL" -> BoolV(cell.n)
           [] typ = "TEXT" -> StringV(cell.n)
           [] typ = "BYTEA" -> ByteVector(cell.n)
           [] typ = "INT2" -> IntV(CastTo(intBits, cell.n))
           [] typ = "INT4" -> IntV(CastTo(intBits, cell.n))
           [] typ = "INT8" -> IntV(CastTo(intBits, cell.n))

SetMin(S) == CHOOSE x \in S : \A y \in S : x <= y

\* The inner loop over 0..width: columns are decoded and pushed in index
\* order until one has a type without an arm, where todo!() panics.
DecodeRow(types, row) ==
    LET width == Len(row)
        bad == {j \in 1..width : types[j] \notin SupportedTypes}
        stop == IF bad = {} THEN width + 1 ELSE SetMin(bad)
    IN [panic |-> bad # {},
        computed_row |-> [j \in 1..(stop - 1) |-> DecodeColumn(types[j], row[j])]]

\* ------------------------------------------------------------ the driver
\* postgres::Client as seen from the three call sites. The server holds
\* one table t(a ty). Statement texts are abstract:
\*   INSERT    INSERT INTO t(a) VALUES ($1)
\*   DELETE    DELETE FROM t
\*   SELECT    SELECT a FROM t
\*   TRUNCATE  TRUNCATE t (as a script)
\*   OTHER     a statement over data the model does not track: any count,
\*             any result set
\* Every call may also fail for a reason of the connection or the server.
DriverFailures == {"Closed", "Db"}

\* Affected-row counts (u64) an untracked statement may report.
CountSamples ==
    {0, 1, 2, MaxInt(Bits32), MaxInt(Bits32) + 1, MaxInt(Bits64) + 1, Pow2(Bits64) - 1}

ExecuteFail(d) == {[err |-> e, count |-> 0, db |-> d] : e \in DriverFailures}

ExecuteReplies(q, refs, d) ==
    ExecuteFail(d) \cup
    CASE q = "INSERT" ->
           IF Len(refs) # 1
           THEN {[err |-> "Parameters", count |-> 0, db |-> d]}
           ELSE LET chk == ToSqlChecked(refs[1], d.ty)
                IN IF chk.err # ""
                   THEN {[err |-> chk.err, count |-> 0, db |-> d]}
                   ELSE IF Len(d.rows) >= MaxTableRows
                        THEN {}
                        ELSE {[err |-> "", count |-> 1,
                               db |-> [d EXCEPT !.rows = Append(@, chk.cell)]]}
      [] q = "DELETE" ->
           IF Len(refs) # 0
           THEN {[err |-> "Parameters", count |-> 0, db |-> d]}
           ELSE {[err |-> "", count |-> Len(d.rows), db |-> [d EXCEPT !.rows = <<>>]]}
      [] q = "OTHER" ->
           {[err |-> "", count |-> n, db |-> d] : n \in CountSamples}

\* Result sets of an untracked query: the column types are any sequence
\* of type tags, each row is picked by a selector that walks the sample
\* cells of each column's type.
CellSamples(ty) ==
    CASE ty = "BOOL" -> <<NullCell, Cell(1), Cell(0)>>
      [] ty = "TEXT" -> <<Cell(1), NullCell, Cell(2)>>
      [] ty = "BYTEA" -> <<Cell(1), Cell(2), NullCell>>
      [] ty = "INT2" -> <<Cell(MinInt(Bits16)), NullCell, Cell(-1), Cell(MaxInt(Bits16))>>
      [] ty = "INT4" -> <<Cell(-1), Cell(MinInt(Bits32)), NullCell, Cell(MaxInt(Bits32))>>
      [] ty = "INT8" -> <<Cell(MaxInt(Bits32)), Cell(MaxInt(Bits32) + 1), Cell(-1),
                          NullCell, Cell(MinInt(Bits32)), Cell(MinInt(Bits64))>>
      [] ty = "FLOAT8" -> <<Cell(1), NullCell>>

Selectors == 0..5

Schemas == UNION {[1..len -> TypeTags] : len \in 0..MaxCols}

SampleRow(types, k) ==
    [j \in 1..Len(types) |->
        CellSamples(types[j])[((k + j - 1) % Len(CellSamples(types[j]))) + 1]]

SelectorSeqs == UNION {[1..r -> Selectors] : r \in 0..MaxRows}

RowSets ==
    {[cols |-> t, rows |-> [i \in 1..Len(ks) |-> SampleRow(t, ks[i])]] :
        t \in Schemas, ks \in SelectorSeqs}

QueryFail == {[err |-> e, cols |-> <<>>, rows |-> <<>>] : e \in DriverFailures}

QueryReplies(q, d) ==
    QueryFail \cup
    CASE q = "SELECT" ->
           {[err |-> "", cols |-> <<d.ty>>,
             rows |-> [i \in 1..Len(d.rows) |-> <<d.rows[i]>>]]}
      [] q = "OTHER" ->
           {[err |-> "", cols |-> rs.cols, rows |-> rs.rows] : rs \in RowSets}

BatchReplies(q, d) ==
    {[err |-> e, db |-> d] : e \in DriverFailures} \cup
    CASE q = "TRUNCATE" -> {[err |-> "", db |-> [d EXCEPT !.rows = <<>>]]}
      [] q = "OTHER" -> {[err |-> "", db |-> d]}

\* ------------------------------------------------------------- actions
NoAnswer == [err |-> "", count |-> 0]

\* todo!() panics: nothing is returned and nothing runs afterwards.
NoPanic == \A c \in Callers : pc[c] # "panic"

\* Mutation of CanBorrow: the methods take &self, which the unsafe Sync
\* impl lets every thread have at once.
CanBorrowAlways(c) == TRUE

\* The three methods take &mut self: a call starts only while no other
\* exclusive borrow of the client is alive.
CanBorrow(c) == borrow = 0

\* Mutation of IsVector: a scalar is taken for a parameter list.
IsVectorOrAnything(b) == TRUE

\* `if let FFIArg::Vector(bindings) = bindings`
IsVector(b) == b.tag = "Vector"

\* Mutation of PushRow: the row is put in front.
PushRowFront(rs, r) == <<r>> \o rs

\* results.push(FFIValue::Vector(computed_row))
PushRow(rs, r) == Append(rs, r)

\* `.map(|x| FFIValue::IntV(x as _))` on the u64 count of Client::execute
CountToFFI(n) == IntV(CastTo(intBits, n))

\* An FFIArg is well typed: the payload of every IntV fits its width.
RECURSIVE WellTyped(_)
WellTyped(a) ==
    /\ a.tag = "IntV" => InRange(intBits, a.n)
    /\ \A k \in 1..Len(a.items) : WellTyped(a.items[k])

Enter(c, method, q, b) ==
    /\ NoPanic
    /\ WellTyped(b)
    /\ pc[c] = "idle"
    /\ CanBorrow(c)
    /\ op' = [op EXCEPT ![c] = method]
    /\ stmt' = [stmt EXCEPT ![c] = q]
    /\ bindings' = [bindings EXCEPT ![c] = b]

\* execute up to the call of self.client.execute: the shape check, the two
\* conversions, then the statement and the parameter slice go to the driver.
execute(c, q, b) ==
    /\ Enter(c, "execute", q, b)
    /\ IF ~IsVector(b)
       THEN /\ pc' = [pc EXCEPT ![c] = "returned"]
            /\ ret' = [ret EXCEPT ![c] = TypeMismatch]
            /\ UNCHANGED <<borrow, references, sent, ncalls>>
       ELSE IF HasUnsupportedArg(b.items)
            THEN /\ pc' = [pc EXCEPT ![c] = "panic"]
                 /\ borrow' = c
                 /\ UNCHANGED <<ret, references, sent, ncalls>>
            ELSE /\ pc' = [pc EXCEPT ![c] = "execute"]
                 /\ borrow' = c
                 /\ references' = [references EXCEPT ![c] = References(Converted(b.items))]
                 /\ sent' = [sent EXCEPT ![c] = References(Converted(b.items))]
                 /\ ncalls' = [ncalls EXCEPT ![c] = @ + 1]
                 /\ UNCHANGED ret
    /\ UNCHANGED <<intBits, db, cols, rows, results, computed_row, answer>>

\* self.client.execute answers; `?` and the map build the return value.
execute_reply(c, reply) ==
    /\ NoPanic
    /\ pc[c] = "execute"
    /\ db' = reply.db
    /\ answer' = [answer EXCEPT ![c] = [err |-> reply.err, count |-> reply.count]]
    /\ ret' = [ret EXCEPT ![c] = IF reply.err # "" THEN FromDriverError(reply.err)
                                 ELSE Ok(CountToFFI(reply.count))]
    /\ references' = [references EXCEPT ![c] = <<>>]
    /\ pc' = [pc EXCEPT ![c] = "returned"]
    /\ borrow' = 0
    /\ UNCHANGED <<intBits, op, stmt, bindings, sent, ncalls, cols, rows, results,
                   computed_row>>

\* query calls self.client.query(query, &[]) first.
query(c, q) ==
    /\ Enter(c, "query", q, Void)
    /\ pc' = [pc EXCEPT ![c] = "query_wait"]
    /\ borrow' = c
    /\ ncalls' = [ncalls EXCEPT ![c] = @ + 1]
    /\ UNCHANGED <<intBits, db, references, sent, cols, rows, results, computed_row,
                   answer, ret>>

\* self.client.query answers: `?` returns the error, else the rows are kept
\* and results starts empty.
query_reply(c, reply) ==
    /\ NoPanic
    /\ pc[c] = "query_wait"
    /\ answer' = [answer EXCEPT ![c] = [err |-> reply.err, count |-> 0]]
    /\ IF reply.err # ""
       THEN /\ ret' = [ret EXCEPT ![c] = FromDriverError(reply.err)]
            /\ pc' = [pc EXCEPT ![c] = "returned"]
            /\ borrow' = 0
            /\ UNCHANGED <<cols, rows>>
       ELSE /\ cols' = [cols EXCEPT ![c] = reply.cols]
            /\ rows' = [rows EXCEPT ![c] = reply.rows]
            /\ pc' = [pc EXCEPT ![c] = "query"]
            /\ UNCHANGED <<ret, borrow>>
    /\ UNCHANGED <<intBits, db, op, stmt, bindings, references, sent, ncalls, results,
                   computed_row>>

\* One turn of `for row in rows`.
query_row(c) ==
    /\ NoPanic
    /\ pc[c] = "query"
    /\ Len(results[c]) < Len(rows[c])
    /\ LET row == rows[c][Len(results[c]) + 1]
           dec == DecodeRow(cols[c], row)
       IN IF dec.panic
          THEN /\ pc' = [pc EXCEPT ![c] = "panic"]
               /\ computed_row' = [computed_row EXCEPT ![c] = dec.computed_row]
               /\ UNCHANGED results
          ELSE /\ results' = [results EXCEPT ![c] = PushRow(@, Vector(dec.computed_row))]
               /\ UNCHANGED <<pc, computed_row>>
    /\ UNCHANGED <<intBits, db, borrow, op, stmt, bindings, references, sent, ncalls,
                   cols, rows, answer, ret>>

\* Ok(FFIValue::Vector(results)) once the loop is over.
query_return(c) ==
    /\ NoPanic
    /\ pc[c] = "query"
    /\ Len(results[c]) = Len(rows[c])
    /\ ret' = [ret EXCEPT ![c] = Ok(Vector(results[c]))]
    /\ pc' = [pc EXCEPT ![c] = "returned"]
    /\ borrow' = 0
    /\ UNCHANGED <<intBits, db, op, stmt, bindings, references, sent, ncalls, cols,
                   rows, results, computed_row, answer>>

\* batch_execute hands the script to self.client.batch_execute.
batch_execute(c, q) ==
    /\ Enter(c, "batch_execute", q, Void)
    /\ pc' = [pc EXCEPT ![c] = "batch"]
    /\ borrow' = c
    /\ ncalls' = [ncalls EXCEPT ![c] = @ + 1]
    /\ UNCHANGED <<intBits, db, references, sent, cols, rows, results, computed_row,
                   answer, ret>>

\* Ok(self.client.batch_execute(queries)?)
batch_execute_reply(c, reply) ==
    /\ NoPanic
    /\ pc[c] = "batch"
    /\ db' = reply.db
    /\ answer' = [answer EXCEPT ![c] = [err |-> reply.err, count |-> 0]]
    /\ ret' = [ret EXCEPT ![c] = IF reply.err # "" THEN FromDriverError(reply.err)
                                 ELSE Ok(Void)]
    /\ pc' = [pc EXCEPT ![c] = "returned"]
    /\ borrow' = 0
    /\ UNCHANGED <<intBits, op, stmt, bindings, references, sent, ncalls, cols, rows,
                   results, computed_row>>

\* The host takes the returned value; the call's locals are gone.
HostReceive(c) ==
    /\ NoPanic
    /\ pc[c] = "returned"
    /\ pc' = [pc EXCEPT ![c] = "idle"]
    /\ op' = [op EXCEPT ![c] = ""]
    /\ stmt' = [stmt EXCEPT ![c] = ""]
    /\ bindings' = [bindings EXCEPT ![c] = Void]
    /\ references' = [references EXCEPT ![c] = <<>>]
    /\ sent' = [sent EXCEPT ![c] = <<>>]
    /\ ncalls' = [ncalls EXCEPT ![c] = 0]
    /\ cols' = [cols EXCEPT ![c] = <<>>]
    /\ rows' = [rows EXCEPT ![c] = <<>>]
    /\ results' = [results EXCEPT ![c] = <<>>]
    /\ computed_row' = [computed_row EXCEPT ![c] = <<>>]
    /\ answer' = [answer EXCEPT ![c] = NoAnswer]
    /\ ret' = [ret EXCEPT ![c] = NoReturn]
    /\ UNCHANGED <<intBits, db, borrow>>

\* -------------------------------------------------------------- inputs
\* Arguments of the calls against table t: every FFIArg variant as the
\* top-level argument, and vectors of at most one element.
TableLeaves ==
    {BoolV(1), NumV(1), IntV(-1), IntV(MaxInt(Bits32)), StringV(1), StringRef(2),
     Void, ByteVector(1), Vector(<<>>)}

TableBindings ==
    {BoolV(1), NumV(1), IntV(1), StringV(1), ByteVector(1), Void, Vector(<<>>)}
    \cup {Vector(<<x>>) : x \in TableLeaves}

\* Arguments of the calls with untracked statements: integers at the edges
\* of the 32-bit range and outside it (passed only where IntV is wider).
IntSamples ==
    {MinInt(Bits32), -1, 1, MaxInt(Bits32), MaxInt(Bits32) + 1, MinInt(Bits64)}

AnyLeaves ==
    {BoolV(0), BoolV(1), NumV(1), StringV(1), StringRef(2), Void, ByteVector(1),
     Vector(<<IntV(1)>>)}
    \cup {IntV(i) : i \in IntSamples}

AnyBindings ==
    {BoolV(1), NumV(1), IntV(1), StringV(1), StringRef(1), ByteVector(1), Void}
    \cup {Vector(xs) : xs \in UNION {[1..n -> AnyLeaves] : n \in 0..MaxParams}}

\* ------------------------------------------------------- specifications
Idle ==
    /\ borrow = 0
    /\ pc = [c \in Callers |-> "idle"]
    /\ op = [c \in Callers |-> ""]
    /\ stmt = [c \in Callers |-> ""]
    /\ bindings = [c \in Callers |-> Void]
    /\ references = [c \in Callers |-> <<>>]
    /\ sent = [c \in Callers |-> <<>>]
    /\ ncalls = [c \in Callers |-> 0]
    /\ cols = [c \in Callers |-> <<>>]
    /\ rows = [c \in Callers |-> <<>>]
    /\ results = [c \in Callers |-> <<>>]
    /\ computed_row = [c \in Callers |-> <<>>]
    /\ answer = [c \in Callers |-> NoAnswer]
    /\ ret = [c \in Callers |-> NoReturn]

\* What a caller may do next, given the statements and arguments it uses.
Step(c, executeStmts, args, queryStmt, script) ==
    \/ /\ pc[c] = "idle"
       /\ \E q \in executeStmts, b \in args : execute(c, q, b)
    \/ /\ pc[c] = "execute"
       /\ \E reply \in ExecuteReplies(stmt[c], sent[c], db) : execute_reply(c, reply)
    \/ query(c, queryStmt)
    \/ /\ pc[c] = "query_wait"
       /\ \E reply \in QueryReplies(stmt[c], db) : query_reply(c, reply)
    \/ query_row(c)
    \/ query_return(c)
    \/ batch_execute(c, script)
    \/ /\ pc[c] = "batch"
       /\ \E reply \in BatchReplies(stmt[c], db) : batch_execute_reply(c, reply)
    \/ HostReceive(c)

\* One host thread works on table t, which starts empty; its column has
\* any of the types.
Init ==
    /\ intBits \in {Bits32, Bits64}
    /\ db \in {[ty |-> t, rows |-> <<>>] : t \in TypeTags}
    /\ Idle

Next == \E c \in HostThread : Step(c, {"INSERT", "DELETE"}, TableBindings, "SELECT", "TRUNCATE")

Spec == Init /\ [][Next]_vars

\* One host thread runs statements over data the model does not track:
\* the driver may answer with any count and any result set.
InitAny ==
    /\ intBits \in {Bits32, Bits64}
    /\ db = [ty |-> "INT4", rows |-> <<>>]
    /\ Idle

NextAny == \E c \in HostThread : Step(c, {"OTHER"}, AnyBindings, "OTHER", "OTHER")

SpecAny == InitAny /\ [][NextAny]_vars

\* Two callers hold the same client handle and work on table t.
SharedBindings == {IntV(1), Vector(<<>>), Vector(<<IntV(1)>>), Vector(<<Void>>)}

InitShared ==
    /\ intBits \in {Bits32, Bits64}
    /\ db \in {[ty |-> t, rows |-> <<>>] : t \in {"INT4", "FLOAT8"}}
    /\ Idle

NextShared == \E c \in Callers : Step(c, {"INSERT", "DELETE"}, SharedBindings, "SELECT", "TRUNCATE")

SpecShared == InitShared /\ [][NextShared]_vars

\* -------------------------------------------------------------- claims
Called(c, method) == op[c] = method /\ pc[c] # "idle"

\* C1: a call of execute whose parameters argument is not a Vector returns
\* TypeMismatch in the step that makes the call, without invoking the
\* driver and without changing the database.
C1_NonVectorIsTypeMismatch ==
    [][\A c \in Callers :
          (pc[c] = "idle" /\ pc'[c] # "idle" /\ op'[c] = "execute"
              /\ bindings'[c].tag # "Vector")
          => (/\ pc'[c] = "returned"
              /\ ret'[c] = TypeMismatch
              /\ ncalls'[c] = 0
              /\ sent'[c] = <<>>
              /\ db' = db)]_vars

C1_Witness ==
    \E c \in Callers :
        /\ Called(c, "execute") /\ pc[c] = "returned"
        /\ stmt[c] = "INSERT"
        /\ bindings[c] = ByteVector(1)
        /\ ret[c] = TypeMismatch
        /\ Len(db.rows) > 0

\* C2: a query whose result set has a row with a column of a type other
\* than boolean, text, binary, 16-, 32- or 64-bit integer does not panic:
\* it returns an unsupported-type error, and no decoded row or column.
C2_UnsupportedColumnReturnsError ==
    \A c \in Callers :
        (/\ Called(c, "query")
         /\ Len(rows[c]) > 0
         /\ \E j \in 1..Len(cols[c]) : cols[c][j] \notin SupportedTypes)
        => /\ pc[c] # "panic"
           /\ pc[c] = "returned" => (ret[c].kind = "Unsupported" /\ ret[c].val = Void)

\* C3: execute with a Vector holding an element that is not Bool, Number,
\* Int, String or Void does not panic: it returns an unsupported-type
\* error and the driver is not invoked.
C3_UnsupportedParameterReturnsError ==
    \A c \in Callers :
        (/\ Called(c, "execute")
         /\ bindings[c].tag = "Vector"
         /\ HasUnsupportedArg(bindings[c].items))
        => /\ pc[c] = "returned"
           /\ ret[c].kind = "Unsupported"
           /\ ncalls[c] = 0

\* The leaf a column of the corresponding SQL type gives back.
LeafOfColumn(ty, cell) ==
    CASE ty = "BOOL" -> BoolV(cell.n)
      [] ty = "FLOAT8" -> NumV(cell.n)
      [] ty = "INT4" -> IntV(cell.n)
      [] ty = "TEXT" -> StringV(cell.n)

ColumnOfLeaf(tag) ==
    CASE tag = "BoolV" -> "BOOL"
      [] tag = "NumV" -> "FLOAT8"
      [] tag = "IntV" -> "INT4"
      [] tag \in {"StringV", "StringRef"} -> "TEXT"

\* C4: round trip. A supported leaf v (Bool, Number, Int in the 32-bit
\* range, String) inserted with execute into a column of the corresponding
\* type is stored with its value, and a query of that column succeeds and
\* returns one row per stored value, each a one-element vector holding the
\* leaf again.
C4_RoundTrip ==
    \A c \in Callers :
        /\ (/\ Called(c, "execute") /\ pc[c] = "returned"
            /\ stmt[c] = "INSERT"
            /\ bindings[c].tag = "Vector" /\ Len(bindings[c].items) = 1
            /\ bindings[c].items[1].tag \in {"BoolV", "NumV", "IntV", "StringV", "StringRef"}
            /\ db.ty = ColumnOfLeaf(bindings[c].items[1].tag)
            /\ Len(db.rows) < MaxTableRows
            /\ answer[c].err \notin DriverFailures)
           => /\ ret[c] = Ok(IntV(1))
              /\ db.rows[Len(db.rows)] = Cell(bindings[c].items[1].n)
        /\ (/\ Called(c, "query") /\ pc[c] \in {"query", "returned", "panic"}
            /\ answer[c].err = ""
            /\ db.ty \in {"BOOL", "FLOAT8", "INT4", "TEXT"}
            /\ \A i \in 1..Len(db.rows) : ~db.rows[i].null)
           => /\ pc[c] # "panic"
              /\ \A i \in 1..Len(results[c]) :
                    results[c][i] = Vector(<<LeafOfColumn(db.ty, db.rows[i])>>)
              /\ pc[c] = "returned"
                    => ret[c] = Ok(Vector([i \in 1..Len(db.rows) |->
                                            Vector(<<LeafOfColumn(db.ty, db.rows[i])>>)]))

\* C5: a Void parameter passes the bind-time check for every type and is
\* written as NULL, and every NULL column of every row the decoder takes
\* up decodes to Void, whatever the column's type.
C5_VoidIsNull ==
    /\ \A ty \in TypeTags :
          /\ Accepts(ToSqlRef(ToArgument(Void)).sql, ty)
          /\ ToSqlChecked(ToSqlRef(ToArgument(Void)), ty) = [err |-> "", cell |-> NullCell]
    /\ \A c \in Callers :
          Called(c, "query") =>
             /\ \A i \in 1..Len(results[c]) : \A j \in 1..Len(cols[c]) :
                   rows[c][i][j].null => results[c][i].items[j] = Void
             /\ pc[c] = "panic" =>
                   \A j \in 1..Len(cols[c]) :
                      rows[c][Len(results[c]) + 1][j].null
                      => (j <= Len(computed_row[c]) /\ computed_row[c][j] = Void)

\* C6: when every column type is supported, query does not panic, and a
\* successful query of R rows with C columns returns one Vector of R
\* Vectors of C elements each, element j of vector i decoding column j of
\* row i; zero rows give the empty Vector.
C6_ResultShape ==
    \A c \in Callers :
        (Called(c, "query") /\ \A j \in 1..Len(cols[c]) : cols[c][j] \in SupportedTypes)
        => /\ pc[c] # "panic"
           /\ (pc[c] = "returned" /\ answer[c].err = "")
              => /\ ret[c].kind = "Ok"
                 /\ ret[c].val.tag = "Vector"
                 /\ Len(ret[c].val.items) = Len(rows[c])
                 /\ \A i \in 1..Len(rows[c]) :
                       /\ ret[c].val.items[i].tag = "Vector"
                       /\ Len(ret[c].val.items[i].items) = Len(cols[c])
                       /\ \A j \in 1..Len(cols[c]) :
                             ret[c].val.items[i].items[j]
                                = DecodeColumn(cols[c][j], rows[c][i][j])

C6_Witness ==
    \E c \in Callers :
        /\ Called(c, "query") /\ pc[c] = "returned" /\ ret[c].kind = "Ok"
        /\ Len(cols[c]) = 2 /\ Len(rows[c]) = 2
        /\ ret[c].val.items[1] # ret[c].val.items[2]
        /\ ret[c].val.items[1].items[1] # ret[c].val.items[1].items[2]

IntegerTypes == {"INT2", "INT4", "INT8"}

\* C7: for n in the 32-bit signed range, an Int(n) parameter is handed to
\* the driver as the i32 n, and a non-NULL INT2, INT4 or INT8 column
\* holding n is returned as Int(n).
C7_IntegersPreserved ==
    \A c \in Callers :
        /\ (Called(c, "execute") /\ pc[c] \in {"execute", "returned"}
            /\ bindings[c].tag = "Vector")
           => \A k \in 1..Len(bindings[c].items) :
                 (bindings[c].items[k].tag = "IntV"
                     /\ InRange(Bits32, bindings[c].items[k].n))
                 => sent[c][k] = [sql |-> "i32", n |-> bindings[c].items[k].n]
        /\ (Called(c, "query") /\ pc[c] = "returned" /\ ret[c].kind = "Ok")
           => \A i \in 1..Len(rows[c]) : \A j \in 1..Len(cols[c]) :
                 (/\ cols[c][j] \in IntegerTypes
                  /\ ~rows[c][i][j].null
                  /\ InRange(Bits32, rows[c][i][j].n))
                 => ret[c].val.items[i].items[j] = IntV(rows[c][i][j].n)

C7_Witness ==
    \E c \in Callers :
        /\ Called(c, "query") /\ pc[c] = "returned" /\ ret[c].kind = "Ok"
        /\ cols[c] = <<"INT2", "INT4">>
        /\ \E i \in 1..Len(rows[c]) :
              /\ rows[c][i][1] = Cell(MinInt(Bits16))
              /\ rows[c][i][2] = Cell(MinInt(Bits32))
              /\ ret[c].val.items[i].items = <<IntV(MinInt(Bits16)), IntV(MinInt(Bits32))>>

\* C8: when the driver call of execute, query or batch_execute answers
\* with an error, the call returns PostgresError::Error holding that
\* error, after exactly one driver call, and query has decoded no row.
C8_DriverErrorPropagates ==
    \A c \in Callers :
        (pc[c] = "returned" /\ answer[c].err # "")
        => /\ ret[c] = Error(answer[c].err)
           /\ ncalls[c] = 1
           /\ results[c] = <<>>

C8_Witness ==
    \E c \in Callers :
        /\ Called(c, "query") /\ pc[c] = "returned"
        /\ answer[c].err = "Db"
        /\ ret[c] = Error("Db")
        /\ Len(db.rows) > 0

InFlight(c) == pc[c] \in {"execute", "query_wait", "query", "batch"}

\* C9: with two callers on one client handle, at most one call is between
\* its start and its return at any time, so at most one statement is on
\* the connection.
C9_OneStatementInFlight ==
    /\ Cardinality({c \in Callers : InFlight(c)}) <= 1
    /\ \A c \in Callers : InFlight(c) => borrow = c

C9_Witness ==
    \E c, d \in Callers :
        /\ c # d
        /\ pc[c] = "execute"
        /\ pc[d] = "returned" /\ op[d] = "query" /\ ret[d].kind = "Ok"
        /\ Len(db.rows) > 0

SupportedLeaves(c) ==
    /\ bindings[c].tag = "Vector"
    /\ ~HasUnsupportedArg(bindings[c].items)

BindList(c) ==
    /\ ncalls[c] = 1
    /\ Len(sent[c]) = Len(bindings[c].items)
    /\ \A k \in 1..Len(sent[c]) : sent[c][k] = ToSqlRef(ToArgument(bindings[c].items[k]))

\* C10 as claimed: execute with a Vector of N supported leaves invokes the
\* driver once with N binds, bind k encoding element k, and on success
\* returns Int(c) for the count c the driver reported.
C10_CountReturnedAsReported ==
    \A c \in Callers :
        (Called(c, "execute") /\ SupportedLeaves(c))
        => /\ pc[c] \in {"execute", "returned"}
           /\ BindList(c)
           /\ (pc[c] = "returned" /\ answer[c].err = "")
              => ret[c] = Ok(IntV(answer[c].count))

\* C10 as amended: the same, and on success the call returns an Int that
\* is the reported count c whenever c fits the signed payload of Int.
C10_CountReturnedWhenItFits ==
    \A c \in Callers :
        (Called(c, "execute") /\ SupportedLeaves(c))
        => /\ pc[c] \in {"execute", "returned"}
           /\ BindList(c)
           /\ (pc[c] = "returned" /\ answer[c].err = "")
              => /\ ret[c].kind = "Ok"
                 /\ ret[c].val.tag = "IntV"
                 /\ answer[c].count <= MaxInt(intBits)
                       => ret[c].val.n = answer[c].count

C10_Witness ==
    \E c \in Callers :
        /\ Called(c, "execute") /\ pc[c] = "returned"
        /\ bindings[c] = Vector(<<IntV(MaxInt(Bits32)), StringRef(2)>>)
        /\ sent[c] = <<[sql |-> "i32", n |-> MaxInt(Bits32)], [sql |-> "String", n |-> 2]>>
        /\ answer[c] = [err |-> "", count |-> 2]
        /\ ret[c] = Ok(IntV(2))

====
